---- MODULE Spec2Model ----
(***************************************************************************)
(* A model of DataManager (src/DataManager.py): the CSV record store with  *)
(* its merge-on-append, the price look-up table builder and the strategy   *)
(* parser.  Text is modelled as a sequence of one-character strings, a     *)
(* file as the text it holds, so that writing, reading back, splitting,    *)
(* trimming and upper-casing are computed as the code computes them.       *)
(***************************************************************************)
EXTENDS Integers, Sequences, FiniteSets, TLC

VARIABLES disk, call

vars == <<disk, call>>

(***************************************************************************)
(* Text: Python str operations used by the code.                           *)
(***************************************************************************)

Whitespace == {" ", "\n", "\t"}

Lowers == <<"a","b","c","d","e","f","g","h","i","j","k","l","m",
            "n","o","p","q","r","s","t","u","v","w","x","y","z">>

Uppers == <<"A","B","C","D","E","F","G","H","I","J","K","L","M",
            "N","O","P","Q","R","S","T","U","V","W","X","Y","Z">>

Digits == <<"0","1","2","3","4","5","6","7","8","9">>

\* The characters of the model in code-point order (str comparison).
CodePoints == <<"\t", "\n", " ", ",", "-", ".", "/">> \o Digits \o <<"<", ">">>
              \o Uppers \o <<"_">> \o Lowers \o <<"~">>

Chars == {CodePoints[i] : i \in 1..Len(CodePoints)}

OrdTable == [c \in Chars |-> CHOOSE i \in 1..Len(CodePoints) : CodePoints[i] = c]

Ord(c) == OrdTable[c]

\* a < b on str: lexicographic by code point.
RECURSIVE str_lt(_, _)
str_lt(a, b) ==
    IF b = <<>> THEN FALSE
    ELSE IF a = <<>> THEN TRUE
    ELSE IF Head(a) = Head(b) THEN str_lt(Tail(a), Tail(b))
    ELSE Ord(Head(a)) < Ord(Head(b))

UpperTable ==
    [c \in Chars |->
        IF \E i \in 1..Len(Lowers) : Lowers[i] = c
        THEN Uppers[CHOOSE i \in 1..Len(Lowers) : Lowers[i] = c]
        ELSE c]

upper_char(c) == UpperTable[c]

\* str.upper()
upper(s) == [i \in 1..Len(s) |-> upper_char(s[i])]

Has(s, c) == \E i \in 1..Len(s) : s[i] = c

IndexOf(s, c) == CHOOSE i \in 1..Len(s) : s[i] = c /\ \A j \in 1..(i - 1) : s[j] # c

\* str.split(sep) for a one-character sep: always at least one piece.
RECURSIVE split(_, _)
split(s, sep) ==
    IF ~Has(s, sep) THEN <<s>>
    ELSE LET i == IndexOf(s, sep)
         IN  <<SubSeq(s, 1, i - 1)>> \o split(SubSeq(s, i + 1, Len(s)), sep)

RECURSIVE lstrip(_)
lstrip(s) == IF s # <<>> /\ Head(s) \in Whitespace THEN lstrip(Tail(s)) ELSE s

RECURSIVE rstrip(_)
rstrip(s) ==
    IF s # <<>> /\ s[Len(s)] \in Whitespace
    THEN rstrip(SubSeq(s, 1, Len(s) - 1)) ELSE s

\* str.strip()
strip(s) == rstrip(lstrip(s))

\* sep.join(parts)
RECURSIVE join(_, _)
join(parts, sep) ==
    IF parts = <<>> THEN <<>>
    ELSE IF Len(parts) = 1 THEN parts[1]
    ELSE parts[1] \o sep \o join(Tail(parts), sep)

\* Iterating a text file: the lines, each with its terminator, a last
\* unterminated line included.
RECURSIVE file_lines(_)
file_lines(text) ==
    IF text = <<>> THEN <<>>
    ELSE IF ~Has(text, "\n") THEN <<text>>
    ELSE LET i == IndexOf(text, "\n")
         IN  <<SubSeq(text, 1, i)>> \o file_lines(SubSeq(text, i + 1, Len(text)))

(***************************************************************************)
(* Results of a call: the exception raised ("" for none) and the value.    *)
(***************************************************************************)

Ok(v) == [raised |-> "", value |-> v]

Raise(e) == [raised |-> e, value |-> <<>>]

(***************************************************************************)
(* The file system under data_location and the private file helpers.       *)
(* disk maps a file name to [exists, text].                                *)
(***************************************************************************)

NoFile == [exists |-> FALSE, text |-> <<>>]

data_location == <<"d","a","t","a","/">>

filename_for(ticker) == data_location \o upper(ticker) \o <<".","c","s","v">>

has_file(fs, filename) == filename \in DOMAIN fs /\ fs[filename].exists

has_file_for(fs, ticker) == has_file(fs, filename_for(ticker))

remove_file_for(fs, ticker) == [fs EXCEPT ![filename_for(ticker)] = NoFile]

readlines(fs, filename) ==
    IF has_file(fs, filename)
    THEN LET ls == file_lines(fs[filename].text)
         IN  [i \in 1..Len(ls) |-> strip(ls[i])]
    ELSE <<>>

readlines_for(fs, ticker) ==
    IF has_file_for(fs, ticker)
    THEN LET ls == file_lines(fs[filename_for(ticker)].text)
         IN  [i \in 1..Len(ls) |-> strip(ls[i])]
    ELSE <<>>

\* read_csv_file_rows_for without the strip() of each value.
read_csv_file_rows_for_unstripped(fs, ticker) ==
    LET file_content == readlines_for(fs, ticker)
    IN  [i \in 1..Len(file_content) |-> split(file_content[i], ",")]

\* One row per line of the file, each value trimmed.
read_csv_file_rows_for(fs, ticker) ==
    LET file_content == readlines_for(fs, ticker)
    IN  [i \in 1..Len(file_content) |->
            LET values == split(file_content[i], ",")
            IN  [k \in 1..Len(values) |-> strip(values[k])]]

NumColumns == 6

\* Six columns; a line with fewer than six values raises IndexError.
read_csv_file_columns_for(fs, ticker) ==
    LET file_content == readlines_for(fs, ticker)
        valuesOf(i) == split(file_content[i], ",")
    IN  IF \E i \in 1..Len(file_content) : Len(valuesOf(i)) < NumColumns
        THEN Raise("IndexError")
        ELSE Ok([c \in 1..NumColumns |->
                    [i \in 1..Len(file_content) |-> strip(valuesOf(i)[c])]])

RECURSIVE csv_text(_)
csv_text(data) ==
    IF data = <<>> THEN <<>>
    ELSE join(Head(data), <<",">>) \o <<"\n">> \o csv_text(Tail(data))

\* open(filename, mode) then one line per row: mode "w" truncates, mode "a"
\* keeps what the file holds; both create the file.
write_data_to_csv_file(fs, filename, data, mode) ==
    LET old == IF mode = "a" /\ has_file(fs, filename)
               THEN fs[filename].text ELSE <<>>
    IN  [fs EXCEPT ![filename] = [exists |-> TRUE, text |-> old \o csv_text(data)]]

(***************************************************************************)
(* read_stock_data and write_stock_data.                                   *)
(***************************************************************************)

read_stock_data(fs, ticker, format) ==
    IF format = "column" THEN read_csv_file_columns_for(fs, ticker)
    ELSE IF format = "row" THEN Ok(read_csv_file_rows_for(fs, ticker))
    ELSE Ok(<<>>)

Last(s) == s[Len(s)]

\* append_rows with the slice taken from the matching row itself.
append_rows_inclusive(existing_data, data) ==
    IF Len(existing_data) = 0 THEN Ok(data)
    ELSE IF data = <<>> THEN Raise("IndexError")
    ELSE IF str_lt(Last(existing_data)[1], Last(data)[1])
            /\ str_lt(data[1][1], Last(existing_data)[1])
    THEN IF \E i \in 1..Len(data) : data[i][1] = Last(existing_data)[1]
         THEN LET index_of_last ==
                      CHOOSE i \in 1..Len(data) :
                          /\ data[i][1] = Last(existing_data)[1]
                          /\ \A j \in 1..(i - 1) : data[j][1] # Last(existing_data)[1]
              IN  Ok(SubSeq(data, index_of_last, Len(data)))
         ELSE Raise("StopIteration")
    ELSE Ok(<<>>)

\* append_rows with the comparison against data[0] made non-strict.
append_rows_overlap_first(existing_data, data) ==
    IF Len(existing_data) = 0 THEN Ok(data)
    ELSE IF data = <<>> THEN Raise("IndexError")
    ELSE IF str_lt(Last(existing_data)[1], Last(data)[1])
            /\ ~str_lt(Last(existing_data)[1], data[1][1])
    THEN IF \E i \in 1..Len(data) : data[i][1] = Last(existing_data)[1]
         THEN LET index_of_last ==
                      CHOOSE i \in 1..Len(data) :
                          /\ data[i][1] = Last(existing_data)[1]
                          /\ \A j \in 1..(i - 1) : data[j][1] # Last(existing_data)[1]
              IN  Ok(SubSeq(data, index_of_last + 1, Len(data)))
         ELSE Raise("StopIteration")
    ELSE Ok(<<>>)

\* append_rows with data_to_write starting out as data instead of [].
append_rows_default(existing_data, data) ==
    IF Len(existing_data) = 0 THEN Ok(data)
    ELSE IF data = <<>> THEN Raise("IndexError")
    ELSE IF str_lt(Last(existing_data)[1], Last(data)[1])
            /\ str_lt(data[1][1], Last(existing_data)[1])
    THEN IF \E i \in 1..Len(data) : data[i][1] = Last(existing_data)[1]
         THEN LET index_of_last ==
                      CHOOSE i \in 1..Len(data) :
                          /\ data[i][1] = Last(existing_data)[1]
                          /\ \A j \in 1..(i - 1) : data[j][1] # Last(existing_data)[1]
              IN  Ok(SubSeq(data, index_of_last + 1, Len(data)))
         ELSE Raise("StopIteration")
    ELSE Ok(data)

\* The rows an append writes (lines 58-64).  data[-1] of an empty data
\* raises IndexError; next() over no match raises StopIteration.
append_rows(existing_data, data) ==
    IF Len(existing_data) = 0 THEN Ok(data)
    ELSE IF data = <<>> THEN Raise("IndexError")
    ELSE IF str_lt(Last(existing_data)[1], Last(data)[1])
            /\ str_lt(data[1][1], Last(existing_data)[1])
    THEN IF \E i \in 1..Len(data) : data[i][1] = Last(existing_data)[1]
         THEN LET index_of_last ==
                      CHOOSE i \in 1..Len(data) :
                          /\ data[i][1] = Last(existing_data)[1]
                          /\ \A j \in 1..(i - 1) : data[j][1] # Last(existing_data)[1]
              IN  Ok(SubSeq(data, index_of_last + 1, Len(data)))
         ELSE Raise("StopIteration")
    ELSE Ok(<<>>)

\* The call's outcome: the exception raised, if any, and the file system.
write_stock_data(fs, ticker, data, append) ==
    IF append
    THEN LET data_to_write == append_rows(read_stock_data(fs, ticker, "row").value, data)
         IN  IF data_to_write.raised # ""
             THEN [raised |-> data_to_write.raised, disk |-> fs]
             ELSE [raised |-> "",
                   disk |-> write_data_to_csv_file(
                                fs, filename_for(ticker), data_to_write.value, "a")]
    ELSE LET removed == IF has_file_for(fs, ticker)
                        THEN remove_file_for(fs, ticker) ELSE fs
         IN  [raised |-> "",
              disk |-> write_data_to_csv_file(removed, filename_for(ticker), data, "w")]

(***************************************************************************)
(* Dates and numbers: datetime.strptime / strftime with DATE_FORMAT,       *)
(* timedelta(1), datetime comparison and float().                          *)
(***************************************************************************)

IsDigit(c) == \E i \in 1..Len(Digits) : Digits[i] = c

DigitValue(c) == (CHOOSE i \in 1..Len(Digits) : Digits[i] = c) - 1

AllDigits(s) == s # <<>> /\ \A i \in 1..Len(s) : IsDigit(s[i])

RECURSIVE to_int(_)
to_int(s) ==
    IF s = <<>> THEN 0
    ELSE to_int(SubSeq(s, 1, Len(s) - 1)) * 10 + DigitValue(s[Len(s)])

is_leap(year) == year % 4 = 0 /\ (year % 100 # 0 \/ year % 400 = 0)

days_in_month(year, month) ==
    IF month = 2 THEN (IF is_leap(year) THEN 29 ELSE 28)
    ELSE IF month \in {4, 6, 9, 11} THEN 30 ELSE 31

\* strptime(text, '%Y-%m-%d'): a datetime, or ValueError.
strptime(text) ==
    LET parts == split(text, "-")
    IN  IF /\ Len(parts) = 3
           /\ \A i \in 1..3 : AllDigits(parts[i])
           /\ Len(parts[1]) = 4
           /\ Len(parts[2]) \in {1, 2}
           /\ Len(parts[3]) \in {1, 2}
           /\ to_int(parts[1]) >= 1
           /\ to_int(parts[2]) \in 1..12
           /\ to_int(parts[3]) \in 1..days_in_month(to_int(parts[1]), to_int(parts[2]))
        THEN Ok([year |-> to_int(parts[1]), month |-> to_int(parts[2]),
                 day |-> to_int(parts[3])])
        ELSE Raise("ValueError")

RECURSIVE zero_padded(_, _)
zero_padded(n, width) ==
    IF width = 0 THEN <<>>
    ELSE zero_padded(n \div 10, width - 1) \o <<Digits[(n % 10) + 1]>>

\* dt.strftime('%Y-%m-%d')
strftime(dt) ==
    zero_padded(dt.year, 4) \o <<"-">> \o zero_padded(dt.month, 2)
        \o <<"-">> \o zero_padded(dt.day, 2)

\* dt + timedelta(1), with February always 28 days long.
add_day_no_leap(dt) ==
    IF dt.day < (IF dt.month = 2 THEN 28 ELSE days_in_month(dt.year, dt.month))
    THEN [dt EXCEPT !.day = dt.day + 1]
    ELSE IF dt.month < 12 THEN [year |-> dt.year, month |-> dt.month + 1, day |-> 1]
    ELSE [year |-> dt.year + 1, month |-> 1, day |-> 1]

\* dt + timedelta(1)
add_day(dt) ==
    IF dt.day < days_in_month(dt.year, dt.month)
    THEN [dt EXCEPT !.day = dt.day + 1]
    ELSE IF dt.month < 12 THEN [year |-> dt.year, month |-> dt.month + 1, day |-> 1]
    ELSE [year |-> dt.year + 1, month |-> 1, day |-> 1]

\* a < b on datetime
datetime_lt(a, b) ==
    \/ a.year < b.year
    \/ a.year = b.year /\ a.month < b.month
    \/ a.year = b.year /\ a.month = b.month /\ a.day < b.day

\* A float: digits n with e of them after the point, trailing zeros dropped.
RECURSIVE float_of(_, _)
float_of(n, e) ==
    IF e > 0 /\ n % 10 = 0 THEN float_of(n \div 10, e - 1) ELSE [n |-> n, e |-> e]

\* float(text): unsigned decimal text, surrounding whitespace ignored; a
\* ValueError otherwise.
py_float(text) ==
    LET t == strip(text)
        parts == split(t, ".")
    IN  IF Len(parts) = 1 /\ AllDigits(parts[1])
        THEN Ok(float_of(to_int(parts[1]), 0))
        ELSE IF /\ Len(parts) = 2
                /\ parts[1] \o parts[2] # <<>>
                /\ \A i \in 1..2 : \A k \in 1..Len(parts[i]) : IsDigit(parts[i][k])
        THEN Ok(float_of(to_int(parts[1] \o parts[2]), Len(parts[2])))
        ELSE Raise("ValueError")

(***************************************************************************)
(* build_price_lut.                                                        *)
(***************************************************************************)

\* price_lookup[key] = value
dict_set(d, key, value) ==
    [k \in DOMAIN d \cup {key} |-> IF k = key THEN value ELSE d[k]]

EmptyDict == [k \in {} |-> 0]

CloseColumn == 5

\* line_data[4], then float(): IndexError on a short line.
close_of(line_data) ==
    IF Len(line_data) < CloseColumn THEN Raise("IndexError")
    ELSE py_float(line_data[CloseColumn])

\* The while loop of lines 121-127 for one pair of lines.
RECURSIVE fill_loop(_, _, _, _, _)
fill_loop(price_lookup, curr_date, next_date, curr_line_data, fill) ==
    IF datetime_lt(curr_date, next_date)
    THEN LET price == close_of(curr_line_data)
         IN  IF price.raised # "" THEN Raise(price.raised)
             ELSE fill_loop(dict_set(price_lookup, strftime(curr_date), price.value),
                            IF fill THEN add_day(curr_date) ELSE next_date,
                            next_date, curr_line_data, fill)
    ELSE Ok(price_lookup)

\* The for loop of lines 114-127 from index i on (1-based), then the last
\* line (lines 129-130).
RECURSIVE pair_loop(_, _, _, _)
pair_loop(price_lookup, file_content, i, fill) ==
    LET curr_line_data == split(file_content[i], ",")
        next_line_data == split(file_content[i + 1], ",")
        curr_date == strptime(curr_line_data[1])
        next_date == strptime(next_line_data[1])
    IN  IF curr_date.raised # "" THEN Raise(curr_date.raised)
        ELSE IF next_date.raised # "" THEN Raise(next_date.raised)
        ELSE LET filled == fill_loop(price_lookup, curr_date.value,
                                     next_date.value, curr_line_data, fill)
             IN  IF filled.raised # "" THEN filled
                 ELSE IF i + 1 < Len(file_content)
                 THEN pair_loop(filled.value, file_content, i + 1, fill)
                 ELSE LET last == close_of(next_line_data)
                      IN  IF last.raised # "" THEN Raise(last.raised)
                          ELSE Ok(dict_set(filled.value,
                                           strftime(next_date.value), last.value))

\* A single-line file reads file_content[i] before i is bound.
build_price_lut(fs, ticker, fill) ==
    LET file_content == readlines_for(fs, ticker)
    IN  IF Len(file_content) = 0 THEN Ok(EmptyDict)
        ELSE IF Len(file_content) = 1 THEN Raise("UnboundLocalError")
        ELSE pair_loop(EmptyDict, file_content, 1, fill)

(***************************************************************************)
(* build_strategy and _parse_signal.                                       *)
(***************************************************************************)

ALWAYS == <<"A", "L", "W", "A", "Y", "S">>
NEVER == <<"N", "E", "V", "E", "R">>
PRICE == <<"P", "R", "I", "C", "E">>

\* _parse_signal taking val_b_code from the second token.
parse_signal_second_token(signal_code) ==
    IF signal_code \in {ALWAYS, NEVER} THEN Ok(<<{}, {}>>)
    ELSE LET codes == split(signal_code, " ")
         IN  IF Len(codes) # 3 THEN Raise("ValueError")
             ELSE LET a == split(codes[1], "~")
                      b == split(codes[2], "~")
                  IN  IF Len(a) # 2 \/ Len(b) # 2 THEN Raise("ValueError")
                      ELSE Ok(<<{upper(a[1]), upper(b[1])},
                                {upper(c[2]) : c \in {x \in {a, b} : x[2] # PRICE}}>>)

\* _parse_signal without the exclusion of PRICE.
parse_signal_keep_price(signal_code) ==
    IF signal_code \in {ALWAYS, NEVER} THEN Ok(<<{}, {}>>)
    ELSE LET codes == split(signal_code, " ")
         IN  IF Len(codes) # 3 THEN Raise("ValueError")
             ELSE LET a == split(codes[1], "~")
                      b == split(codes[3], "~")
                  IN  IF Len(a) # 2 \/ Len(b) # 2 THEN Raise("ValueError")
                      ELSE Ok(<<{upper(a[1]), upper(b[1])},
                                {upper(c[2]) : c \in {a, b}}>>)

\* (tickers, indicators) of a signal; unpacking a split of the wrong length
\* raises ValueError.
parse_signal(signal_code) ==
    IF signal_code \in {ALWAYS, NEVER} THEN Ok(<<{}, {}>>)
    ELSE LET codes == split(signal_code, " ")
         IN  IF Len(codes) # 3 THEN Raise("ValueError")
             ELSE LET a == split(codes[1], "~")
                      b == split(codes[3], "~")
                  IN  IF Len(a) # 2 \/ Len(b) # 2 THEN Raise("ValueError")
                      ELSE Ok(<<{upper(a[1]), upper(b[1])},
                                {upper(c[2]) : c \in {x \in {a, b} : x[2] # PRICE}}>>)

EmptyStrategy ==
    [strategy |-> [assets |-> {}, positions |-> <<>>],
     stocks_needed |-> {}, indicators_needed |-> {}]

\* The for loop of lines 157-171 from line i on.
RECURSIVE strategy_loop(_, _, _)
strategy_loop(acc, lines, i) ==
    IF i > Len(lines) THEN Ok(acc)
    ELSE LET fields == split(lines[i], ",")
         IN  IF Len(fields) # 4 THEN Raise("ValueError")
             ELSE LET ratio == fields[1]
                      ticker == fields[2]
                      buy_signal == fields[3]
                      sell_signal == fields[4]
                      buy == parse_signal(buy_signal)
                      sell == parse_signal(sell_signal)
                      weight == py_float(ratio)
                  IN  IF buy.raised # "" THEN Raise(buy.raised)
                      ELSE IF sell.raised # "" THEN Raise(sell.raised)
                      ELSE IF weight.raised # "" THEN Raise(weight.raised)
                      ELSE strategy_loop(
                               [strategy |->
                                    [assets |-> acc.strategy.assets \cup {upper(ticker)},
                                     positions |->
                                         Append(acc.strategy.positions,
                                                [is_holding |-> FALSE,
                                                 ratio |-> weight.value,
                                                 ticker |-> upper(ticker),
                                                 buy_signal |-> buy_signal,
                                                 sell_signal |-> sell_signal])],
                                stocks_needed |->
                                    acc.stocks_needed \cup {upper(ticker)}
                                        \cup buy.value[1] \cup sell.value[1],
                                indicators_needed |->
                                    acc.indicators_needed \cup buy.value[2] \cup sell.value[2]],
                               lines, i + 1)

build_strategy(fs, strategy_name, strategy_dir) ==
    strategy_loop(EmptyStrategy, readlines(fs, strategy_dir \o strategy_name), 1)

(***************************************************************************)
(* Inputs: tickers, rows and row sequences the callers supply.             *)
(***************************************************************************)

MaxLen == 3

TickerLower == <<"a">>
TickerUpper == <<"A">>
TickerOther == <<"b">>

Tickers == {TickerLower, TickerUpper, TickerOther}

\* Callers of the merge write one ticker, spelled in lower case.
MergeTickers == {TickerLower}

FileNames == {filename_for(t) : t \in Tickers}

Date1 == <<"2","0","2","4","-","0","2","-","2","7">>
Date2 == <<"2","0","2","4","-","0","2","-","2","8">>
Date3 == <<"2","0","2","4","-","0","3","-","0","1">>

Dates == {Date1, Date2, Date3}

CloseOf(d) == IF d = Date1 THEN <<"1","0">>
              ELSE IF d = Date2 THEN <<"2","0">> ELSE <<"4","2">>

\* [date, open, high, low, close, volume], all text.
RowOf(d) == <<d, <<"3">>, <<"4">>, <<"2">>, CloseOf(d), <<"5">>>>

Rows == {RowOf(d) : d \in Dates}

SeqsUpTo(S, n) == UNION {[1..k -> S] : k \in 0..n}

Ascending(data) ==
    \A i \in 1..(Len(data) - 1) : ~str_lt(data[i + 1][1], data[i][1])

StrictlyAscending(data) ==
    \A i \in 1..(Len(data) - 1) : str_lt(data[i][1], data[i + 1][1])

\* Row sequences sorted by ascending date, as callers must supply them.
SortedData == {data \in SeqsUpTo(Rows, MaxLen) : Ascending(data)}

StrictData == {data \in SeqsUpTo(Rows, MaxLen) : StrictlyAscending(data)}

\* Rows as a data source may deliver them: values padded with blanks, a
\* volume written with a thousands separator.
RowPadded == <<<<" ">> \o Date2, <<"3", " ">>, <<" ", "4">>, <<"2">>,
               <<" ", "2", "0", " ">>, <<"5", " ">>>>

RowComma == <<Date3, <<"3">>, <<"4">>, <<"2">>, <<"4", "2">>, <<"1", ",", "5">>>>

MaxRoundTripLen == 2

RoundTripData == SeqsUpTo({RowOf(Date1), RowPadded, RowComma}, MaxRoundTripLen)

RoundTripTickers == {TickerLower, TickerUpper}

Formats == {"row", "column", "other"}

(***************************************************************************)
(* Inputs of the strategy parser: a strategy file of up to MaxLines lines. *)
(***************************************************************************)

MaxLines == 2

StrategyDir == <<".", "/">>
StrategyName == <<"s">>
StrategyPath == StrategyDir \o StrategyName

\* A signal term TICKER~INDICATOR and a comparison of two terms.
Term(ticker, indicator) == [ticker |-> ticker, indicator |-> indicator]

Comparison(a, op, b) == [sentinel |-> <<>>, a |-> a, op |-> op, b |-> b]

Sentinel(word) == [sentinel |-> word, a |-> Term(<<>>, <<>>), op |-> <<>>,
                   b |-> Term(<<>>, <<>>)]

TermText(t) == t.ticker \o <<"~">> \o t.indicator

SignalText(sig) ==
    IF sig.sentinel # <<>> THEN sig.sentinel
    ELSE TermText(sig.a) \o <<" ">> \o sig.op \o <<" ">> \o TermText(sig.b)

SigPriceAbove == Comparison(Term(<<"a">>, PRICE), <<">">>, Term(<<"b">>, <<"s", "m", "a">>))
SigLowerCase == Comparison(Term(<<"B">>, <<"p", "r", "i", "c", "e">>), <<"<">>, Term(<<"a">>, PRICE))
SigTermAsOperator == Comparison(Term(<<"A">>, <<"B">>), <<"C", "~", "D">>, Term(<<"E">>, <<"F">>))

\* Malformed signals: four space-separated tokens, a term without "~".
FourTokens == SignalText(SigPriceAbove) \o <<" ", "x">>
NoTilde == <<"a", "P", "R", "I", "C", "E", " ", ">", " ", "b", "~", "s", "m", "a">>

SignalCodes == {ALWAYS, NEVER, SignalText(SigPriceAbove), SignalText(SigLowerCase),
                SignalText(SigTermAsOperator), FourTokens, NoTilde}

\* A line ratio,ticker,buy_signal,sell_signal; weight is the ratio as a float.
Line1 == [ratio |-> <<"1">>, weight |-> [n |-> 1, e |-> 0], ticker |-> <<"a">>,
          buy |-> Sentinel(ALWAYS), sell |-> Sentinel(NEVER)]
Line2 == [ratio |-> <<"0", ".", "5">>, weight |-> [n |-> 5, e |-> 1], ticker |-> <<"B">>,
          buy |-> SigPriceAbove, sell |-> Sentinel(ALWAYS)]
Line3 == [ratio |-> <<"1", ".", "0">>, weight |-> [n |-> 1, e |-> 0], ticker |-> <<"b">>,
          buy |-> SigLowerCase, sell |-> SigTermAsOperator]

WellFormedLines == {Line1, Line2, Line3}

LineText(l) ==
    join(<<l.ratio, l.ticker, SignalText(l.buy), SignalText(l.sell)>>, <<",">>)

EmptyLine == <<>>
FourTokenLine == join(<<<<"1">>, <<"a">>, FourTokens, NEVER>>, <<",">>)
NoTildeLine == join(<<<<"1">>, <<"a">>, ALWAYS, NoTilde>>, <<",">>)

StrategyLines ==
    {LineText(l) : l \in WellFormedLines} \cup {EmptyLine, FourTokenLine, NoTildeLine}

RECURSIVE file_text(_)
file_text(lines) ==
    IF lines = <<>> THEN <<>> ELSE Head(lines) \o <<"\n">> \o file_text(Tail(lines))

StrategyFiles ==
    {NoFile} \cup {[exists |-> TRUE, text |-> file_text(lines)] :
                      lines \in SeqsUpTo(StrategyLines, MaxLines)}

(***************************************************************************)
(* The state machine: disk is the file system, call the last call made,    *)
(* with its arguments, the file it addressed as it was before the call,    *)
(* the exception it raised and the value it returned.                      *)
(***************************************************************************)

NoCall == [op |-> "init", ticker |-> <<>>, data |-> <<>>, append |-> FALSE,
           format |-> "", fill |-> FALSE, strategy_name |-> <<>>,
           signal_code |-> <<>>, before |-> NoFile, raised |-> "", ret |-> <<>>]

Init ==
    /\ disk = [f \in FileNames \cup {StrategyPath} |-> NoFile]
    /\ call = NoCall

\* A strategy file is written by the user, not by DataManager: any of
\* StrategyFiles may be on disk when the DataManager is constructed.
InitStrategy ==
    /\ \E file \in StrategyFiles :
           disk = [f \in FileNames \cup {StrategyPath} |->
                       IF f = StrategyPath THEN file ELSE NoFile]
    /\ call = NoCall

WriteStockData(ticker, data, append) ==
    LET r == write_stock_data(disk, ticker, data, append)
    IN  /\ disk' = r.disk
        /\ call' = [NoCall EXCEPT !.op = "write_stock_data", !.ticker = ticker,
                                  !.data = data, !.append = append,
                                  !.before = disk[filename_for(ticker)],
                                  !.raised = r.raised]

ReadStockData(ticker, format) ==
    LET r == read_stock_data(disk, ticker, format)
    IN  /\ call' = [NoCall EXCEPT !.op = "read_stock_data", !.ticker = ticker,
                                  !.format = format,
                                  !.before = disk[filename_for(ticker)],
                                  !.raised = r.raised, !.ret = r.value]
        /\ UNCHANGED disk

BuildPriceLut(ticker, fill) ==
    LET r == build_price_lut(disk, ticker, fill)
    IN  /\ call' = [NoCall EXCEPT !.op = "build_price_lut", !.ticker = ticker,
                                  !.fill = fill,
                                  !.before = disk[filename_for(ticker)],
                                  !.raised = r.raised, !.ret = r.value]
        /\ UNCHANGED disk

BuildStrategy(strategy_name, strategy_dir) ==
    LET r == build_strategy(disk, strategy_name, strategy_dir)
    IN  /\ call' = [NoCall EXCEPT !.op = "build_strategy",
                                  !.strategy_name = strategy_name,
                                  !.before = disk[strategy_dir \o strategy_name],
                                  !.raised = r.raised, !.ret = r.value]
        /\ UNCHANGED disk

ParseSignal(signal_code) ==
    LET r == parse_signal(signal_code)
    IN  /\ call' = [NoCall EXCEPT !.op = "parse_signal",
                                  !.signal_code = signal_code,
                                  !.raised = r.raised, !.ret = r.value]
        /\ UNCHANGED disk

Next ==
    \/ \E ticker \in MergeTickers, data \in SortedData, append \in BOOLEAN :
           WriteStockData(ticker, data, append)
    \/ \E ticker \in MergeTickers, format \in Formats : ReadStockData(ticker, format)

Spec == Init /\ [][Next]_vars

\* Callers that supply strictly ascending rows only, on every ticker, and
\* build look-up tables from what is stored.
NextAscending ==
    \/ \E ticker \in Tickers, data \in StrictData, append \in BOOLEAN :
           WriteStockData(ticker, data, append)
    \/ \E ticker \in Tickers, fill \in BOOLEAN : BuildPriceLut(ticker, fill)

SpecAscending == Init /\ [][NextAscending]_vars

\* Callers that overwrite a series with rows as delivered and read it back,
\* under either spelling of the ticker.
NextRoundTrip ==
    \/ \E ticker \in RoundTripTickers, data \in RoundTripData :
           WriteStockData(ticker, data, FALSE)
    \/ \E ticker \in RoundTripTickers, format \in Formats :
           ReadStockData(ticker, format)

SpecRoundTrip == Init /\ [][NextRoundTrip]_vars

\* Callers that parse the strategy file and single signals.
NextStrategy ==
    \/ BuildStrategy(StrategyName, StrategyDir)
    \/ \E signal_code \in SignalCodes : ParseSignal(signal_code)

SpecStrategy == InitStrategy /\ [][NextStrategy]_vars

(***************************************************************************)
(* Vocabulary of the properties.                                           *)
(***************************************************************************)

\* The dates of the model in calendar order.
Calendar == <<Date1, Date2,
              <<"2","0","2","4","-","0","2","-","2","9">>, Date3>>

DateNo(d) == CHOOSE i \in 1..Len(Calendar) : Calendar[i] = d

\* The series a file holds, as read_stock_data(ticker, 'row') returns it.
Series(file) ==
    read_csv_file_rows_for([f \in {filename_for(TickerLower)} |-> file], TickerLower)

StoredNow == Series(disk[filename_for(call.ticker)])

StoredBefore == Series(call.before)

IsAppend == call.op = "write_stock_data" /\ call.append

IsOverwrite == call.op = "write_stock_data" /\ ~call.append

IsSuffix(s, t) == Len(s) <= Len(t) /\ s = SubSeq(t, Len(t) - Len(s) + 1, Len(t))

\* The rows of incoming after the first row dated L.
AfterDate(incoming, L) ==
    LET k == CHOOSE i \in 1..Len(incoming) :
                 /\ incoming[i][1] = L
                 /\ \A j \in 1..(i - 1) : incoming[j][1] # L
    IN  [i \in 1..(Len(incoming) - k) |-> incoming[k + i]]

\* What the merge of section 4.2 appends.
MergeResult(existing, incoming) ==
    IF existing = <<>> THEN incoming
    ELSE IF incoming = <<>> THEN <<>>
    ELSE LET L == Last(existing)[1]
         IN  IF /\ DateNo(incoming[1][1]) < DateNo(L)
                /\ DateNo(L) < DateNo(Last(incoming)[1])
                /\ \E i \in 1..Len(incoming) : incoming[i][1] = L
             THEN AfterDate(incoming, L)
             ELSE <<>>

(***************************************************************************)
(* C1: write_stock_data(ticker, incoming, append=True) appends exactly the *)
(* merge result: all of incoming when the stored series is empty; the rows *)
(* of incoming after the row dated L, the last stored date, when           *)
(* incoming's first date < L < incoming's last date; no row otherwise.     *)
(***************************************************************************)
C1_AppendWritesMergeResult ==
    IsAppend => StoredNow = StoredBefore \o MergeResult(StoredBefore, call.data)

\* An append that spliced: a non-empty stored series grew by a proper,
\* non-empty part of incoming.
C1_Witness ==
    /\ IsAppend
    /\ StoredBefore # <<>>
    /\ Len(StoredNow) > Len(StoredBefore)
    /\ Len(StoredNow) < Len(StoredBefore) + Len(call.data)

(***************************************************************************)
(* C2: merge ambiguity is never an error: on a non-empty stored series and *)
(* an incoming sequence sorted by ascending date, an append completes      *)
(* without raising and appends a suffix of incoming or nothing.            *)
(***************************************************************************)
C2_AppendNeverRaises ==
    (IsAppend /\ StoredBefore # <<>> /\ call.data # <<>> /\ Ascending(call.data)) =>
        /\ call.raised = ""
        /\ \E s \in {SubSeq(call.data, k, Len(call.data)) : k \in 1..(Len(call.data) + 1)} :
               StoredNow = StoredBefore \o s

(***************************************************************************)
(* C10: append is idempotent: when an append of a non-empty, strictly      *)
(* ascending incoming completed, the same call made again completes and    *)
(* leaves every file as it is.                                             *)
(***************************************************************************)
C10_AppendIdempotent ==
    [][(/\ IsAppend
        /\ call.raised = ""
        /\ call.data # <<>>
        /\ \A i \in 1..(Len(call.data) - 1) :
               DateNo(call.data[i][1]) < DateNo(call.data[i + 1][1])
        /\ call'.op = "write_stock_data"
        /\ call'.append
        /\ call'.ticker = call.ticker
        /\ call'.data = call.data)
       => (call'.raised = "" /\ disk' = disk)]_vars

\* A completed append of rows the series already ends with, which left the
\* series as it was: the second of two identical appends.
C10_Witness ==
    /\ IsAppend
    /\ call.raised = ""
    /\ Len(call.data) >= 2
    /\ StoredNow = StoredBefore
    /\ IsSuffix(call.data, StoredNow)

(***************************************************************************)
(* C8: stored-order invariant: when every write supplies rows in strictly  *)
(* ascending date order, every ticker's stored series is in strictly       *)
(* ascending date order, so no date is stored twice.                       *)
(***************************************************************************)
C8_StoredSeriesAscending ==
    \A f \in FileNames :
        LET rows == Series(disk[f])
        IN  \A i \in 1..(Len(rows) - 1) : DateNo(rows[i][1]) < DateNo(rows[i + 1][1])

\* An append completed a two-row series to all three dates while the
\* other file holds a series too.
C8_Witness ==
    /\ IsAppend
    /\ Len(StoredBefore) = 2
    /\ Len(StoredNow) = 3
    /\ \A f \in FileNames : Series(disk[f]) # <<>>

\* The closing price the rows of the model carry on date d, as a float.
PriceOn(d) ==
    [n |-> IF d = Date1 THEN 10 ELSE IF d = Date2 THEN 20 ELSE 42, e |-> 0]

IsLut == call.op = "build_price_lut"

(***************************************************************************)
(* C4: build_price_lut on a stored series of exactly one row returns the   *)
(* one-entry table {date: close as a float}, for fill=True and fill=False, *)
(* without raising.                                                        *)
(***************************************************************************)
C4_SingleRowLookup ==
    (IsLut /\ Len(StoredNow) = 1) =>
        /\ call.raised = ""
        /\ call.ret = [k \in {StoredNow[1][1]} |-> PriceOn(StoredNow[1][1])]

(***************************************************************************)
(* C5: on a stored series of two or more rows with strictly ascending      *)
(* dates, build_price_lut returns a table whose keys are, with fill, every *)
(* calendar date from the first stored date to the last, and without fill  *)
(* exactly the stored dates; each key maps to the closing price of the     *)
(* latest stored row dated on or before the key.                           *)
(***************************************************************************)
C5_LookupTable ==
    (/\ IsLut
     /\ Len(StoredNow) >= 2
     /\ \A i \in 1..(Len(StoredNow) - 1) :
            DateNo(StoredNow[i][1]) < DateNo(StoredNow[i + 1][1])) =>
        LET stored == {StoredNow[i][1] : i \in 1..Len(StoredNow)}
            keys == IF call.fill
                    THEN {Calendar[n] : n \in DateNo(StoredNow[1][1])..DateNo(Last(StoredNow)[1])}
                    ELSE stored
            latest(k) == CHOOSE d \in stored :
                             /\ DateNo(d) <= DateNo(k)
                             /\ \A x \in stored : DateNo(x) <= DateNo(k) => DateNo(x) <= DateNo(d)
        IN  /\ call.raised = ""
            /\ DOMAIN call.ret = keys
            /\ \A k \in keys : call.ret[k] = PriceOn(latest(k))

\* A filled table over a series with a gap: more keys than stored rows,
\* the leap day among them.
C5_Witness ==
    /\ IsLut
    /\ call.fill
    /\ call.raised = ""
    /\ Len(StoredNow) >= 2
    /\ Cardinality(DOMAIN call.ret) > Len(StoredNow)
    /\ Calendar[3] \in DOMAIN call.ret

\* A row with each field trimmed of surrounding whitespace.
Trimmed(row) == IF row = RowPadded THEN RowOf(Date2) ELSE row

TrimmedRows(data) == [i \in 1..Len(data) |-> Trimmed(data[i])]

PlainField(field) == \A i \in 1..Len(field) : field[i] \notin {",", "\n"}

PlainRows(data) ==
    \A i \in 1..Len(data) : \A k \in 1..Len(data[i]) : PlainField(data[i][k])

(***************************************************************************)
(* C3 as stated: after write_stock_data(ticker, rows, append=False), over  *)
(* no file or over any file, read_stock_data(ticker, 'row') returns        *)
(* exactly rows, each field trimmed of surrounding whitespace.             *)
(***************************************************************************)
C3_OverwriteRoundTrip ==
    IsOverwrite =>
        read_stock_data(disk, call.ticker, "row") = Ok(TrimmedRows(call.data))

(***************************************************************************)
(* C3 as amended: the same, for rows whose fields hold no comma and no     *)
(* line break.                                                             *)
(***************************************************************************)
C3_OverwriteRoundTripPlain ==
    (IsOverwrite /\ PlainRows(call.data)) =>
        read_stock_data(disk, call.ticker, "row") = Ok(TrimmedRows(call.data))

\* An overwrite with padded rows of a file that held another series.
C3_Witness ==
    /\ IsOverwrite
    /\ PlainRows(call.data)
    /\ \E i \in 1..Len(call.data) : call.data[i] = RowPadded
    /\ StoredBefore # <<>>
    /\ StoredBefore # StoredNow

IsBuild == call.op = "build_strategy"

IsParse == call.op = "parse_signal"

\* The strategy file holds exactly these lines.
SourceIs(lines) == disk[StrategyPath] = [exists |-> TRUE, text |-> file_text(lines)]

Texts(src) == [i \in 1..Len(src) |-> LineText(src[i])]

Signals(src) == UNION {{src[i].buy, src[i].sell} : i \in 1..Len(src)}

\* The terms of the non-sentinel signals of a source.
Terms(src) == UNION {{sig.a, sig.b} : sig \in {x \in Signals(src) : x.sentinel = <<>>}}

(***************************************************************************)
(* C6: for a well-formed strategy source, build_strategy returns as        *)
(* instruments the upper-cased position tickers and the upper-cased        *)
(* tickers of both terms of every non-sentinel signal, as indicators the   *)
(* upper-cased indicator names of those terms except terms whose indicator *)
(* is the literal PRICE, and as assets the position tickers only; ALWAYS   *)
(* and NEVER contribute nothing.                                           *)
(***************************************************************************)
C6_InstrumentsAndIndicators ==
    \A src \in SeqsUpTo(WellFormedLines, MaxLines) :
        (IsBuild /\ SourceIs(Texts(src))) =>
            LET positions == {upper(src[i].ticker) : i \in 1..Len(src)}
            IN  /\ call.raised = ""
                /\ call.ret.stocks_needed =
                       positions \cup {upper(t.ticker) : t \in Terms(src)}
                /\ call.ret.indicators_needed =
                       {upper(t.indicator) : t \in {x \in Terms(src) : x.indicator # PRICE}}
                /\ call.ret.strategy.assets = positions

\* A parse of a source with a PRICE term, a derived indicator and a
\* sentinel: an instrument that is no asset, and one indicator.
C6_Witness ==
    /\ IsBuild
    /\ SourceIs(Texts(<<Line2>>))
    /\ call.ret.stocks_needed = {<<"A">>, <<"B">>}
    /\ call.ret.indicators_needed = {<<"S", "M", "A">>}
    /\ call.ret.strategy.assets = {<<"B">>}

\* A line with its lines' text, or the empty line.
LineOrEmpty == [blank : {FALSE}, line : WellFormedLines] \cup
               [blank : {TRUE}, line : {Line1}]

SourceText(src) ==
    [i \in 1..Len(src) |-> IF src[i].blank THEN EmptyLine ELSE LineText(src[i].line)]

RECURSIVE NonEmpty(_)
NonEmpty(src) ==
    IF src = <<>> THEN <<>>
    ELSE IF Head(src).blank THEN NonEmpty(Tail(src))
    ELSE <<Head(src).line>> \o NonEmpty(Tail(src))

PositionOf(l) ==
    [is_holding |-> FALSE, ratio |-> l.weight, ticker |-> upper(l.ticker),
     buy_signal |-> SignalText(l.buy), sell_signal |-> SignalText(l.sell)]

(***************************************************************************)
(* C9: build_strategy returns one StrategyPosition per non-empty line of   *)
(* the source, in file order, with is_holding false, the ratio as a float, *)
(* the ticker upper-cased and the signal texts verbatim; an empty line     *)
(* contributes no position and does not make the parse fail.               *)
(***************************************************************************)
C9_PositionPerNonEmptyLine ==
    \A src \in SeqsUpTo(LineOrEmpty, MaxLines) :
        (IsBuild /\ SourceIs(SourceText(src))) =>
            /\ call.raised = ""
            /\ call.ret.strategy.positions =
                   [i \in 1..Len(NonEmpty(src)) |-> PositionOf(NonEmpty(src)[i])]

CarriesSignal(lines, signal_code) ==
    \E i \in 1..Len(lines) :
        LET fields == split(lines[i], ",")
        IN  Len(fields) = 4 /\ signal_code \in {fields[3], fields[4]}

(***************************************************************************)
(* C7 as stated: parsing the signal text A~B C~D E~F raises a parse        *)
(* failure, in _parse_signal and in build_strategy on a line carrying it.  *)
(***************************************************************************)
C7_TermAsOperatorRaises ==
    /\ (IsParse /\ call.signal_code = SignalText(SigTermAsOperator)) => call.raised # ""
    /\ \A lines \in SeqsUpTo(StrategyLines, MaxLines) :
           (IsBuild /\ SourceIs(lines)
                /\ CarriesSignal(lines, SignalText(SigTermAsOperator))
                /\ ~CarriesSignal(lines, FourTokens) /\ ~CarriesSignal(lines, NoTilde)
                /\ \A i \in 1..Len(lines) : lines[i] # EmptyLine)
               => call.raised # ""

(***************************************************************************)
(* C7 as amended: A~B C~D E~F has three space-separated tokens and parses, *)
(* C~D being the operator: _parse_signal returns tickers {A, E} and        *)
(* indicators {B, F}; a signal of four space-separated tokens raises a     *)
(* parse failure, in _parse_signal and in build_strategy on a line         *)
(* carrying it, and nothing is returned.                                   *)
(***************************************************************************)
C7_ThreeTokensParse ==
    /\ (IsParse /\ call.signal_code = SignalText(SigTermAsOperator)) =>
           /\ call.raised = ""
           /\ call.ret = <<{<<"A">>, <<"E">>}, {<<"B">>, <<"F">>}>>
    /\ (IsParse /\ call.signal_code = FourTokens) =>
           /\ call.raised = "ValueError"
           /\ call.ret = <<>>
    /\ \A lines \in SeqsUpTo(StrategyLines, MaxLines) :
           (IsBuild /\ SourceIs(lines) /\ CarriesSignal(lines, FourTokens)) =>
               /\ call.raised = "ValueError"
               /\ call.ret = <<>>

\* _parse_signal returned for A~B C~D E~F.
C7_Witness ==
    /\ IsParse
    /\ call.signal_code = SignalText(SigTermAsOperator)
    /\ call.raised = ""
    /\ call.ret[1] # {}

====
